---- MODULE Spec2Model ----
(***************************************************************************)
(* A model of tensorforce's PPOAgent and TRPOAgent constructors            *)
(* (agents/ppo_agent.py, agents/trpo_agent.py) and of RandomModel          *)
(* (models/random_model.py).                                               *)
(*                                                                         *)
(* Encoding of Python values.  A Python value is a record:                 *)
(*   None                       [py |-> "None"]                            *)
(*   an opaque caller object    [obj |-> i]                                *)
(*   a str / float / bool       [str |-> s], [float |-> s], [bool |-> b]   *)
(*   an int that may be None    [int |-> n]                                *)
(*   a dict                     the record of its keys                     *)
(* An int argument that is never compared with None (batch_size,           *)
(* cg_max_iterations) is a plain integer.  Floats are kept as the text of  *)
(* their literal; sampled floats live on an integer grid.                  *)
(***************************************************************************)
EXTENDS Integers, Sequences, FiniteSets, TLC

VARIABLES
    kind,        \* which agent class is being constructed: "ppo" or "trpo"
    args,        \* the arguments bound to __init__'s parameters
    pc,          \* "new", "raised", "constructed" (after __init__), "model" (after initialize_model)
    error,       \* the exception __init__ ended in, "" when none
    attrs,       \* the agent's configuration attributes (self.device ... ), NoAttrs before they are assigned
    base_call,   \* the keyword arguments of the call to Agent.__init__, NoCall before it
    model,       \* the keyword arguments PGProbRatioModel was built with, NoModel before
    actions_spec,  \* RandomModel.actions_spec: action name -> action dict
    call,        \* the arguments of the last tf_actions_and_internals call
    result       \* what that call returned or raised, NoResult before the first call

vars == <<kind, args, pc, error, attrs, base_call, model, actions_spec, call, result>>

agentVars == <<kind, args, pc, error, attrs, base_call, model>>
randomVars == <<actions_spec, call, result>>

None == [py |-> "None"]
NoAttrs == [unset |-> TRUE]
NoCall == [uncalled |-> TRUE]
NoModel == [unbuilt |-> TRUE]
NoResult == [uncalled |-> TRUE]
NoRandomModel == [none |-> TRUE]

(***************************************************************************)
(* Bounds of the explored inputs.                                          *)
(***************************************************************************)
MaxRot == 1            \* rotations of the opaque argument objects
MaxBatchSize == 2      \* batch_size in 1..MaxBatchSize
MaxFrequency == 2      \* update_frequency in None, 1..MaxFrequency
MaxCgIterations == 1   \* cg_max_iterations in -1..MaxCgIterations
MaxBatch == 2          \* first dimension of the states fed to RandomModel, 1..MaxBatch
MaxNumActions == 2     \* num_actions of an int action, 1..MaxNumActions
FloatRange == 1        \* a normal sample lies on the grid -FloatRange..FloatRange

\* capacity=(1000 * batch_size)  # assumed episode length of 1000
EpisodeLength == 1000

(***************************************************************************)
(* The parameters of __init__ whose values the constructors never inspect. *)
(***************************************************************************)
CommonOpaque ==
    <<"states_spec", "actions_spec", "network", "device", "session_config", "scope",
      "saver_spec", "summary_spec", "distributed_spec", "variable_noise",
      "states_preprocessing", "actions_exploration", "reward_preprocessing",
      "update_spec", "discount", "distributions", "entropy_regularization",
      "baseline_mode", "baseline", "baseline_optimizer", "gae_lambda",
      "likelihood_ratio_clipping", "batched_observe">>

PPOOpaque == CommonOpaque \o <<"subsampling_fraction", "optimization_steps">>

TRPOOpaque == CommonOpaque \o
    <<"learning_rate", "cg_damping", "cg_unroll_loop", "ls_max_iterations",
      "ls_accept_ratio", "ls_unroll_loop">>

Opaque(k) == IF k = "ppo" THEN PPOOpaque ELSE TRPOOpaque

Idx(names, n) == CHOOSE i \in 1..Len(names) : names[i] = n

\* The defaults of PPOAgent.__init__'s signature.
PPODefault(n) ==
    CASE n = "scope" -> [str |-> "ppo"]
      [] n = "discount" -> [float |-> "0.99"]
      [] n = "subsampling_fraction" -> [float |-> "0.1"]
      [] n = "optimization_steps" -> [int |-> 100]
      [] OTHER -> None

\* The defaults of TRPOAgent.__init__'s signature.
TRPODefault(n) ==
    CASE n = "scope" -> [str |-> "trpo"]
      [] n = "discount" -> [float |-> "0.99"]
      [] n = "learning_rate" -> [float |-> "1e-3"]
      [] n = "cg_damping" -> [float |-> "1e-3"]
      [] n = "cg_unroll_loop" -> [bool |-> FALSE]
      [] n = "ls_max_iterations" -> [int |-> 10]
      [] n = "ls_accept_ratio" -> [float |-> "0.9"]
      [] n = "ls_unroll_loop" -> [bool |-> FALSE]
      [] OTHER -> None

Default(k, n) == IF k = "ppo" THEN PPODefault(n) ELSE TRPODefault(n)

\* The value bound to opaque parameter n: the signature's default when the
\* caller leaves n out (or, for the required ones, passes None), otherwise a
\* caller object; rotation rot varies which object each parameter gets, and
\* no two parameters of one call get the same object.
OpaqueValue(k, n, rot, omitted) ==
    IF n = omitted THEN Default(k, n)
    ELSE [obj |-> ((Idx(Opaque(k), n) + rot) % Len(Opaque(k))) + 1]

OpaqueNames(k) == {Opaque(k)[i] : i \in 1..Len(Opaque(k))}

\* The memory arguments explored: None, a valid spec, one that asks for next
\* states, and one without the include_next_states key.
Memories ==
    { None,
      [type |-> "replay", include_next_states |-> FALSE, capacity |-> 7],
      [type |-> "replay", include_next_states |-> TRUE, capacity |-> 7],
      [type |-> "latest", capacity |-> 7] }

Frequencies == {None} \cup {[int |-> n] : n \in 1..MaxFrequency}

StepOptimizers == {None, [type |-> "sgd", learning_rate |-> "1e-2"]}

PPOArgs ==
    { [n \in OpaqueNames("ppo") \cup {"memory", "batch_size", "update_frequency", "step_optimizer"} |->
         CASE n = "memory" -> mem
           [] n = "batch_size" -> bs
           [] n = "update_frequency" -> uf
           [] n = "step_optimizer" -> so
           [] OTHER -> OpaqueValue("ppo", n, rot, omitted)] :
      rot \in 0..MaxRot, omitted \in OpaqueNames("ppo") \cup {"-"},
      mem \in Memories, bs \in 1..MaxBatchSize, uf \in Frequencies, so \in StepOptimizers }

TRPOArgs ==
    { [n \in OpaqueNames("trpo") \cup {"memory", "batch_size", "update_frequency", "cg_max_iterations"} |->
         CASE n = "memory" -> mem
           [] n = "batch_size" -> bs
           [] n = "update_frequency" -> uf
           [] n = "cg_max_iterations" -> cg
           [] OTHER -> OpaqueValue("trpo", n, rot, omitted)] :
      rot \in 0..MaxRot, omitted \in OpaqueNames("trpo") \cup {"-"},
      mem \in Memories, bs \in 1..MaxBatchSize, uf \in Frequencies,
      cg \in (-1)..MaxCgIterations }


(***************************************************************************)
(* PPOAgent.__init__                                                       *)
(***************************************************************************)

\* A mis-ordered constructor: the memory assertion runs before the network check.
PPORaisesMemoryFirst(a) ==
    IF a.memory # None /\ "include_next_states" \notin DOMAIN a.memory THEN "KeyError: 'include_next_states'"
    ELSE IF a.memory # None /\ a.memory.include_next_states THEN "AssertionError"
    ELSE IF a.network = None THEN "TensorForceError: No network provided."
    ELSE ""

\* The exception PPOAgent.__init__ ends in, "" when it runs to its end:
\* the network check, then (memory given) the lookup memory['include_next_states']
\* and the assertion on it.
PPORaises(a) ==
    IF a.network = None THEN "TensorForceError: No network provided."
    ELSE IF a.memory # None /\ "include_next_states" \notin DOMAIN a.memory THEN "KeyError: 'include_next_states'"
    ELSE IF a.memory # None /\ a.memory.include_next_states THEN "AssertionError"
    ELSE ""

PPOFrequency(a) == IF a.update_frequency = None THEN a.batch_size ELSE a.update_frequency.int

\* A default memory sized from the update frequency instead of the batch size.
PPOMemoryByFrequency(a) ==
    IF a.memory = None
    THEN [type |-> "latest", include_next_states |-> FALSE, capacity |-> EpisodeLength * PPOFrequency(a)]
    ELSE a.memory

PPOMemory(a) ==
    IF a.memory = None
    THEN [type |-> "latest", include_next_states |-> FALSE, capacity |-> EpisodeLength * a.batch_size]
    ELSE a.memory

PPOUpdateSpec(a) ==
    [mode |-> "episodes", batch_size |-> a.batch_size, frequency |-> PPOFrequency(a)]

\* A step optimizer default with another learning rate.
PPOStepOptimizerOtherRate(a) ==
    IF a.step_optimizer = None THEN [type |-> "adam", learning_rate |-> "1e-3"] ELSE a.step_optimizer

PPOStepOptimizer(a) ==
    IF a.step_optimizer = None THEN [type |-> "adam", learning_rate |-> "1e-4"] ELSE a.step_optimizer

PPOOptimizer(a) ==
    [type |-> "multi_step",
     optimizer |-> [type |-> "subsampling_step",
                    optimizer |-> PPOStepOptimizer(a),
                    fraction |-> a.subsampling_fraction],
     num_steps |-> a.optimization_steps]

\* self.device = device ... self.likelihood_ratio_clipping = likelihood_ratio_clipping
PPOAttributes(a) ==
    [ device |-> a.device,
      session_config |-> a.session_config,
      scope |-> a.scope,
      saver_spec |-> a.saver_spec,
      summary_spec |-> a.summary_spec,
      distributed_spec |-> a.distributed_spec,
      variable_noise |-> a.variable_noise,
      states_preprocessing |-> a.states_preprocessing,
      actions_exploration |-> a.actions_exploration,
      reward_preprocessing |-> a.reward_preprocessing,
      memory |-> PPOMemory(a),
      update_spec |-> PPOUpdateSpec(a),
      optimizer |-> PPOOptimizer(a),
      discount |-> a.discount,
      network |-> a.network,
      distributions |-> a.distributions,
      entropy_regularization |-> a.entropy_regularization,
      baseline_mode |-> a.baseline_mode,
      baseline |-> a.baseline,
      baseline_optimizer |-> a.baseline_optimizer,
      gae_lambda |-> a.gae_lambda,
      likelihood_ratio_clipping |-> a.likelihood_ratio_clipping ]

\* super(PPOAgent, self).__init__(states_spec=..., actions_spec=..., batched_observe=...)
PPOBaseCall(a) ==
    [states_spec |-> a.states_spec, actions_spec |-> a.actions_spec, batched_observe |-> a.batched_observe]

PPOAgent__init__ ==
    /\ kind = "ppo" /\ pc = "new"
    /\ IF PPORaises(args) # ""
       THEN /\ pc' = "raised"
            /\ error' = PPORaises(args)
            /\ UNCHANGED <<attrs, base_call>>
       ELSE /\ pc' = "constructed"
            /\ attrs' = PPOAttributes(args)
            /\ base_call' = PPOBaseCall(args)
            /\ UNCHANGED error
    /\ UNCHANGED <<kind, args, model>>
    /\ UNCHANGED randomVars

\* A model call that mixes up baseline and baseline_optimizer.
PPOModelKwargsSwapped(self) ==
    [self EXCEPT !.baseline = self.baseline_optimizer, !.baseline_optimizer = self.baseline]

\* The keyword arguments of the PGProbRatioModel(...) call, read from the
\* agent's attributes.  states_spec and actions_spec are read from attributes
\* that Agent.__init__ sets and are not part of this record.
PPOModelKwargs(self) ==
    [ device |-> self.device,
      session_config |-> self.session_config,
      scope |-> self.scope,
      saver_spec |-> self.saver_spec,
      summary_spec |-> self.summary_spec,
      distributed_spec |-> self.distributed_spec,
      variable_noise |-> self.variable_noise,
      states_preprocessing |-> self.states_preprocessing,
      actions_exploration |-> self.actions_exploration,
      reward_preprocessing |-> self.reward_preprocessing,
      memory |-> self.memory,
      update_spec |-> self.update_spec,
      optimizer |-> self.optimizer,
      discount |-> self.discount,
      network |-> self.network,
      distributions |-> self.distributions,
      entropy_regularization |-> self.entropy_regularization,
      baseline_mode |-> self.baseline_mode,
      baseline |-> self.baseline,
      baseline_optimizer |-> self.baseline_optimizer,
      gae_lambda |-> self.gae_lambda,
      likelihood_ratio_clipping |-> self.likelihood_ratio_clipping ]

PPOAgent_initialize_model ==
    /\ kind = "ppo" /\ pc = "constructed"
    /\ model' = PPOModelKwargs(attrs)
    /\ pc' = "model"
    /\ UNCHANGED <<kind, args, error, attrs, base_call>>
    /\ UNCHANGED randomVars

(***************************************************************************)
(* TRPOAgent.__init__                                                      *)
(***************************************************************************)

\* The exception TRPOAgent.__init__ ends in, "" when it runs to its end.
TRPORaises(a) ==
    IF a.network = None THEN "TensorForceError: No network provided."
    ELSE IF a.memory # None /\ "include_next_states" \notin DOMAIN a.memory THEN "KeyError: 'include_next_states'"
    ELSE IF a.memory # None /\ a.memory.include_next_states THEN "AssertionError"
    ELSE ""

TRPOFrequency(a) == IF a.update_frequency = None THEN a.batch_size ELSE a.update_frequency.int

TRPOMemory(a) ==
    IF a.memory = None
    THEN [type |-> "latest", include_next_states |-> FALSE, capacity |-> EpisodeLength * a.batch_size]
    ELSE a.memory

TRPOUpdateSpec(a) ==
    [mode |-> "episodes", batch_size |-> a.batch_size, frequency |-> TRPOFrequency(a)]

TRPOOptimizer(a) ==
    [type |-> "optimized_step",
     optimizer |-> [type |-> "natural_gradient",
                    learning_rate |-> a.learning_rate,
                    cg_max_iterations |-> a.cg_max_iterations,
                    cg_damping |-> a.cg_damping,
                    cg_unroll_loop |-> a.cg_unroll_loop],
     ls_max_iterations |-> a.ls_max_iterations,
     ls_accept_ratio |-> a.ls_accept_ratio,
     ls_mode |-> "exponential",
     ls_parameter |-> "0.5",
     ls_unroll_loop |-> a.ls_unroll_loop]

\* self.device = device ... self.likelihood_ratio_clipping = likelihood_ratio_clipping
TRPOAttributes(a) ==
    [ device |-> a.device,
      session_config |-> a.session_config,
      scope |-> a.scope,
      saver_spec |-> a.saver_spec,
      summary_spec |-> a.summary_spec,
      distributed_spec |-> a.distributed_spec,
      variable_noise |-> a.variable_noise,
      states_preprocessing |-> a.states_preprocessing,
      actions_exploration |-> a.actions_exploration,
      reward_preprocessing |-> a.reward_preprocessing,
      memory |-> TRPOMemory(a),
      update_spec |-> TRPOUpdateSpec(a),
      optimizer |-> TRPOOptimizer(a),
      discount |-> a.discount,
      network |-> a.network,
      distributions |-> a.distributions,
      entropy_regularization |-> a.entropy_regularization,
      baseline_mode |-> a.baseline_mode,
      baseline |-> a.baseline,
      baseline_optimizer |-> a.baseline_optimizer,
      gae_lambda |-> a.gae_lambda,
      likelihood_ratio_clipping |-> a.likelihood_ratio_clipping ]

\* super(TRPOAgent, self).__init__(states_spec=..., actions_spec=..., batched_observe=...)
TRPOBaseCall(a) ==
    [states_spec |-> a.states_spec, actions_spec |-> a.actions_spec, batched_observe |-> a.batched_observe]

TRPOAgent__init__ ==
    /\ kind = "trpo" /\ pc = "new"
    /\ IF TRPORaises(args) # ""
       THEN /\ pc' = "raised"
            /\ error' = TRPORaises(args)
            /\ UNCHANGED <<attrs, base_call>>
       ELSE /\ pc' = "constructed"
            /\ attrs' = TRPOAttributes(args)
            /\ base_call' = TRPOBaseCall(args)
            /\ UNCHANGED error
    /\ UNCHANGED <<kind, args, model>>
    /\ UNCHANGED randomVars

\* The keyword arguments of the PGProbRatioModel(...) call (states_spec and
\* actions_spec apart, as for PPOModelKwargs).
TRPOModelKwargs(self) ==
    [ device |-> self.device,
      session_config |-> self.session_config,
      scope |-> self.scope,
      saver_spec |-> self.saver_spec,
      summary_spec |-> self.summary_spec,
      distributed_spec |-> self.distributed_spec,
      discount |-> self.discount,
      variable_noise |-> self.variable_noise,
      states_preprocessing |-> self.states_preprocessing,
      actions_exploration |-> self.actions_exploration,
      reward_preprocessing |-> self.reward_preprocessing,
      memory |-> self.memory,
      update_spec |-> self.update_spec,
      optimizer |-> self.optimizer,
      network |-> self.network,
      distributions |-> self.distributions,
      entropy_regularization |-> self.entropy_regularization,
      baseline_mode |-> self.baseline_mode,
      baseline |-> self.baseline,
      baseline_optimizer |-> self.baseline_optimizer,
      gae_lambda |-> self.gae_lambda,
      likelihood_ratio_clipping |-> self.likelihood_ratio_clipping ]

TRPOAgent_initialize_model ==
    /\ kind = "trpo" /\ pc = "constructed"
    /\ model' = TRPOModelKwargs(attrs)
    /\ pc' = "model"
    /\ UNCHANGED <<kind, args, error, attrs, base_call>>
    /\ UNCHANGED randomVars


(***************************************************************************)
(* RandomModel                                                             *)
(***************************************************************************)

Shapes == {<<>>, <<1>>, <<1, 1>>}

\* The action dicts explored: bool, int, and float with both bounds, no
\* bound, max_value alone and min_value alone.
ActionDicts ==
    UNION { { [type |-> "bool", shape |-> s] }
            \cup { [type |-> "int", shape |-> s, num_actions |-> n] : n \in 1..MaxNumActions }
            \cup { [type |-> "float", shape |-> s],
                   [type |-> "float", shape |-> s, min_value |-> -1, max_value |-> 1],
                   [type |-> "float", shape |-> s, max_value |-> 1],
                   [type |-> "float", shape |-> s, min_value |-> -1] } : s \in Shapes }

\* The action specs explored: one action of any kind, or a scalar action of
\* any kind next to a second scalar bool or int action.
ActionsSpecs ==
    { [a |-> d] : d \in ActionDicts }
    \cup { [a |-> d, b |-> e] :
             d \in {x \in ActionDicts : x.shape = <<>>},
             e \in { [type |-> "bool", shape |-> <<>>],
                     [type |-> "int", shape |-> <<>>, num_actions |-> 2] } }

\* The states dicts explored, as the sequence of their entries in iteration
\* order; each entry is a tensor, of which only the shape matters.
StatesOf(batch) ==
    { << [shape |-> <<batch, 4>>] >>,
      << [shape |-> <<batch>>], [shape |-> <<batch, 4>>] >> }

RECURSIVE Product(_)
Product(shape) == IF shape = <<>> THEN 1 ELSE Head(shape) * Product(Tail(shape))

\* A tensor shape that leaves out the batch dimension.
SampleShapeNoBatch(states, action) == action.shape

\* shape = (tf.shape(input=next(iter(states.values())))[0],) + action['shape']
SampleShape(states, action) == <<states[1].shape[1]>> \o action.shape

\* The values one element of the sampled tensor can take:
\*   bool   tf.random_uniform(shape) < 0.5
\*   int    tf.random_uniform(shape, maxval=num_actions, dtype=int), minval 0
\*   float  tf.random_uniform(shape, minval=min_value, maxval=max_value) when
\*          'min_value' is a key, tf.random_normal(shape) otherwise
\* random_uniform draws from [minval, maxval); the grid is the integers.
SampleValues(action) ==
    CASE action.type = "bool" -> BOOLEAN
      [] action.type = "int" -> 0..(action.num_actions - 1)
      [] action.type = "float" ->
           IF "min_value" \in DOMAIN action
           THEN action.min_value..(action.max_value - 1)
           ELSE (-FloatRange)..FloatRange

\* The dtype of the sampled tensor: the comparison gives tf.bool,
\* util.tf_dtype('int') is tf.int32, and the float default is tf.float32.
SampleDtype(action) ==
    CASE action.type = "bool" -> "bool"
      [] action.type = "int" -> "int32"
      [] action.type = "float" -> "float32"

\* The tensors the sampling op of one action can produce.
SampleTensors(states, action) ==
    { [dtype |-> SampleDtype(action), shape |-> SampleShape(states, action), values |-> v] :
        v \in [1..Product(SampleShape(states, action)) -> SampleValues(action)] }

\* The names that get an entry in the actions dict: the if/elif chain has no else.
SampledNames(spec) == {n \in DOMAIN spec : spec[n].type \in {"bool", "int", "float"}}

\* The actions dicts one call can return: for each name that gets an entry,
\* one of the tensors its sampling op can produce.
RECURSIVE DictsOver(_, _, _)
DictsOver(names, spec, states) ==
    IF names = {} THEN { [n \in {} |-> None] }
    ELSE LET n == CHOOSE x \in names : TRUE
         IN  { (n :> t) @@ rest : t \in SampleTensors(states, spec[n]),
                                  rest \in DictsOver(names \ {n}, spec, states) }

SampledActions(spec, states) == DictsOver(SampledNames(spec), spec, states)

\* An assertion that accepts any internals.
InternalsAssertionOff(internals) == TRUE

\* assert len(internals) == 0
InternalsAssertion(internals) == Len(internals) = 0

\* action['max_value'] is looked up for a float action that has 'min_value'.
MissingMaxValue(spec) ==
    \E n \in DOMAIN spec :
        /\ spec[n].type = "float"
        /\ "min_value" \in DOMAIN spec[n]
        /\ "max_value" \notin DOMAIN spec[n]

tf_actions_and_internals ==
    /\ actions_spec # NoRandomModel
    /\ result = NoResult
    /\ \E batch \in 1..MaxBatch, internals \in {<<>>, <<"h">>}, deterministic \in BOOLEAN :
       \E states \in StatesOf(batch) :
          /\ call' = [states |-> states, internals |-> internals]
          /\ IF ~InternalsAssertion(internals)
             THEN result' = [raised |-> "AssertionError"]
             ELSE IF MissingMaxValue(actions_spec)
             THEN result' = [raised |-> "KeyError: 'max_value'"]
             ELSE \E actions \in SampledActions(actions_spec, states) :
                      result' = [actions |-> actions, internals |-> <<>>]
    /\ UNCHANGED actions_spec
    /\ UNCHANGED agentVars

\* The caller is done with what the call returned or raised; the model can be
\* called again.
ReleaseResult ==
    /\ result # NoResult
    /\ call' = NoCall /\ result' = NoResult
    /\ UNCHANGED actions_spec
    /\ UNCHANGED agentVars

(***************************************************************************)
(* Specifications                                                          *)
(***************************************************************************)

IdleAgent ==
    /\ kind = "none" /\ args = None /\ pc = "idle" /\ error = ""
    /\ attrs = NoAttrs /\ base_call = NoCall /\ model = NoModel

IdleRandom ==
    /\ actions_spec = NoRandomModel /\ call = NoCall /\ result = NoResult

\* An agent class is called with some arguments.
InitAgent ==
    /\ kind \in {"ppo", "trpo"}
    /\ args \in (IF kind = "ppo" THEN PPOArgs ELSE TRPOArgs)
    /\ pc = "new" /\ error = ""
    /\ attrs = NoAttrs /\ base_call = NoCall /\ model = NoModel
    /\ IdleRandom

\* A RandomModel was built with some actions_spec.
InitRandom ==
    /\ actions_spec \in ActionsSpecs
    /\ call = NoCall /\ result = NoResult
    /\ IdleAgent

NextAgent ==
    \/ PPOAgent__init__
    \/ PPOAgent_initialize_model
    \/ TRPOAgent__init__
    \/ TRPOAgent_initialize_model

NextRandom == tf_actions_and_internals \/ ReleaseResult

SpecAgent == InitAgent /\ [][NextAgent]_vars

SpecRandom == InitRandom /\ [][NextRandom]_vars

Init == InitAgent \/ InitRandom

Next == NextAgent \/ NextRandom

Spec == Init /\ [][Next]_vars


(***************************************************************************)
(* Properties                                                              *)
(***************************************************************************)

\* The hyperparameters both agents hand to the model unchanged.
PassThrough ==
    {"device", "session_config", "scope", "saver_spec", "summary_spec", "distributed_spec",
     "variable_noise", "states_preprocessing", "actions_exploration", "reward_preprocessing",
     "discount", "network", "distributions", "entropy_regularization", "baseline_mode",
     "baseline", "baseline_optimizer", "gae_lambda", "likelihood_ratio_clipping"}

Returned == "actions" \in DOMAIN result

\* C1: constructing a PPOAgent or a TRPOAgent with network = None ends in
\* TensorForceError("No network provided."), whatever the other arguments,
\* with no configuration attribute assigned, the base Agent constructor not
\* called and no model initialised.
C1_NoNetworkRaises ==
    (pc # "new" /\ args.network = None) =>
        /\ pc = "raised"
        /\ error = "TensorForceError: No network provided."
        /\ attrs = NoAttrs
        /\ base_call = NoCall
        /\ model = NoModel

\* A constructor called without a network and with a memory that would fail
\* the memory assertion has ended.
C1_Witness ==
    /\ pc = "raised" /\ args.network = None
    /\ args.memory # None
    /\ "include_next_states" \in DOMAIN args.memory
    /\ args.memory.include_next_states

\* C2: every sampled value of an int action lies in 0..num_actions-1, and
\* every sampled value of a float action that configures min_value and/or
\* max_value lies within the configured bound(s), min_value <= v < max_value.
C2_SamplesWithinBounds ==
    Returned =>
        \A n \in DOMAIN result.actions :
            \A i \in DOMAIN result.actions[n].values :
                LET v == result.actions[n].values[i]
                    action == actions_spec[n]
                IN  /\ action.type = "int" => (0 <= v /\ v < action.num_actions)
                    /\ action.type = "float" =>
                         /\ "min_value" \in DOMAIN action => action.min_value <= v
                         /\ "max_value" \in DOMAIN action => v < action.max_value

C4_PassThrough ==
    pc = "model" => \A n \in PassThrough : model[n] = args[n]

\* A model has been built for an agent whose caller gave every pass-through
\* hyperparameter an object of its own.
C4_Witness ==
    /\ pc = "model"
    /\ \A n \in PassThrough : args[n] # None /\ "obj" \in DOMAIN args[n]
    /\ \A n, m \in PassThrough : n # m => args[n] # args[m]

\* C5: the optimizer a PPOAgent gives to its model is multi_step(num_steps =
\* optimization_steps) wrapping subsampling_step(fraction =
\* subsampling_fraction) wrapping the step optimizer, which is the caller's
\* when one is given and Adam (learning_rate 1e-4) when step_optimizer is None.
C5_PPOOptimizer ==
    (kind = "ppo" /\ pc = "model") =>
        model.optimizer =
            [type |-> "multi_step",
             num_steps |-> args.optimization_steps,
             optimizer |->
                 [type |-> "subsampling_step",
                  fraction |-> args.subsampling_fraction,
                  optimizer |-> IF args.step_optimizer = None
                                THEN [type |-> "adam", learning_rate |-> "1e-4"]
                                ELSE args.step_optimizer]]

\* A PPO model has been built with the default step optimizer.
C5_Witness == kind = "ppo" /\ pc = "model" /\ args.step_optimizer = None

\* C6: the update specification given to the model carries batch_size equal
\* to the batch_size argument, counted in samples (timesteps) collected via
\* observe, with frequency equal to update_frequency when given and to
\* batch_size otherwise.
C6_BatchOfTimesteps ==
    pc = "model" =>
        /\ model.update_spec.batch_size = args.batch_size
        /\ model.update_spec.mode = "timesteps"
        /\ model.update_spec.frequency =
               (IF args.update_frequency = None THEN args.batch_size ELSE args.update_frequency.int)

\* C7: RandomModel keeps no state across calls: a call leaves actions_spec
\* as it was, fails its assertion when given non-empty internals, and
\* otherwise returns an empty tuple of internals.
C7_Stateless ==
    [][ /\ actions_spec' = actions_spec
        /\ result' # NoResult =>
              /\ Len(call'.internals) # 0 => result' = [raised |-> "AssertionError"]
              /\ "internals" \in DOMAIN result' => result'.internals = <<>> ]_vars

\* A call with non-empty internals has failed its assertion.
C7_Witness == call # NoCall /\ Len(call.internals) > 0 /\ result = [raised |-> "AssertionError"]

\* C8: the cg_max_iterations of the natural_gradient optimizer specification
\* given to the model of a constructed TRPOAgent is greater than 0.
C8_CgIterationsPositive ==
    (kind = "trpo" /\ pc = "model") =>
        model.optimizer.optimizer.cg_max_iterations > 0

\* C9: with memory = None the memory specification given to the model is
\* {type: 'latest', include_next_states: False, capacity: 1000 * batch_size};
\* a given memory is forwarded as it is.
C9_Memory ==
    pc = "model" =>
        model.memory =
            (IF args.memory = None
             THEN [type |-> "latest", include_next_states |-> FALSE, capacity |-> 1000 * args.batch_size]
             ELSE args.memory)

\* A model has been built with the default memory for an agent whose
\* update_frequency differs from its batch_size.
C9_Witness ==
    /\ pc = "model" /\ args.memory = None
    /\ args.update_frequency # None
    /\ args.update_frequency.int # args.batch_size

====
